---------------------------- MODULE Spec2Model ----------------------------
(***************************************************************************)
(* Model of the caching / batching / search-index layer                    *)
(* (src/GOOGLE_API_TEST_RESULTS.md, "Performance Optimization System")     *)
(* and of the Drive folder automation (src/unnamed/part_010,               *)
(* src/google_workspace/Order_Management_Schema.js).                       *)
(*                                                                         *)
(* Strings of the program are modelled as sequences of tokens: a cache key *)
(* 'trade_ops_' + 'sheets_read_' + id + '_' + range is the token sequence  *)
(* <<keyPrefix, "sheets_read", id, range>>.  String concatenation is \o,   *)
(* String.replace(prefix, '') removes the first prefix token and           *)
(* String.includes(id) is membership of the id token.                      *)
(*                                                                         *)
(* A JavaScript Map is modelled as the sequence of its entries in          *)
(* insertion order, which is the order Map.entries() iterates in.          *)
(***************************************************************************)
EXTENDS Integers, Sequences, FiniteSets, TLC

VARIABLES
    smartCache,   \* SmartCache instance + performanceMonitor.metrics.cacheStats
    now,          \* Date.now(), in milliseconds
    last,         \* the last completed call: its name, arguments and return value
    store,        \* the remote spreadsheets: <<spreadsheet id, range>> -> values
    batch,        \* the batchSheetsOperations / batchDriveOperations call in progress
    index,        \* a search index built by buildSearchIndex, once it is built
    drive,        \* the Drive: folders, files and the stored root folder id
    history,      \* what earlier calls on the initialized Drive walked and returned
    running,      \* concurrent executions of createOrderFolder, by execution
    monitor,      \* performanceMonitor: metrics.queries, metrics.errors, counters
    expect,       \* the keys callers have set and not set again, deleted, cleared
                  \* or seen evicted since, with the value and the expiry time
    agents        \* PMHelpers.agents: agent id -> status and currentTask

vars == <<smartCache, now, last, store, batch, index, drive, history, running,
          monitor, expect, agents>>

(***************************************************************************)
(* Bounds of the model                                                     *)
(***************************************************************************)
\* PERFORMANCE_CONFIG.caching.maxEntries is 1000 in the source; the model
\* runs the same code with a small capacity.
maxEntries == 2
\* the clock advances in steps of TickMs, at most MaxTicks times
MaxTicks == 2
\* at most MaxGets SmartCache.get calls are counted (hits + misses)
MaxGets == 2
\* PERFORMANCE_CONFIG.batchSizes.sheetsAPI (100) and .driveAPI (50): the model
\* runs the same code with small chunks
sheetsAPI == 2
driveAPI == 1
\* a batch call is given at most MaxOps operations
MaxOps == 3
\* a sheet holds at most MaxRows data rows under its header row
MaxRows == 2
\* calls of the Drive folder automation in one run
MaxDriveCalls == 3
\* concurrent executions change turns at most MaxSwitches times
MaxSwitches == 2
MaxAffix == 2
MaxTracked == 3
PadLength == 48

(***************************************************************************)
(* Program constants                                                       *)
(***************************************************************************)
ttl == 300000
\* the ttl optimizedSearch gives the index and the search results
IndexTtl == 600000
SearchTtl == 300000
TickMs == 300000
queryTime == 2000
keyPrefix == "trade_ops_"

CacheValues == {"v1", "v2"}
\* keys the callers pass: two plain keys and one that itself starts with the
\* text of the prefix ('trade_ops_a')
RawKeys == {<<"a">>, <<"b">>, <<keyPrefix, "a">>}

(***************************************************************************)
(* JavaScript Map                                                          *)
(***************************************************************************)
MapHas(m, k) == \E i \in 1..Len(m) : m[i].k = k

MapGet(m, k) == m[CHOOSE i \in 1..Len(m) : m[i].k = k].v

MapSet(m, k, v) ==
    IF MapHas(m, k)
    THEN [i \in 1..Len(m) |-> IF m[i].k = k THEN [k |-> k, v |-> v] ELSE m[i]]
    ELSE Append(m, [k |-> k, v |-> v])

MapDelete(m, k) == SelectSeq(m, LAMBDA e : e.k # k)

MapKeys(m) == {m[i].k : i \in 1..Len(m)}

\* String.prototype.replace(keyPrefix, ''): removes the first occurrence
RECURSIVE ReplacePrefix(_)
ReplacePrefix(s) ==
    IF s = <<>> THEN <<>>
    ELSE IF Head(s) = keyPrefix THEN Tail(s)
    ELSE <<Head(s)>> \o ReplacePrefix(Tail(s))

(***************************************************************************)
(* SmartCache                                                              *)
(***************************************************************************)
EmptyCache ==
    [cache |-> <<>>, timestamps |-> <<>>, accessCount |-> <<>>,
     hits |-> 0, misses |-> 0, size |-> 0]

\* a delete that leaves the access counter behind
CacheDelete_KeepsCounter(c, key) ==
    LET cacheKey == <<keyPrefix>> \o key
        cache2 == MapDelete(c.cache, cacheKey)
    IN  [c EXCEPT !.cache = cache2,
                  !.timestamps = MapDelete(c.timestamps, cacheKey),
                  !.size = Len(cache2)]

\* SmartCache.delete(key)
CacheDelete(c, key) ==
    LET cacheKey == <<keyPrefix>> \o key
        cache2 == MapDelete(c.cache, cacheKey)
    IN  [c EXCEPT !.cache = cache2,
                  !.timestamps = MapDelete(c.timestamps, cacheKey),
                  !.accessCount = MapDelete(c.accessCount, cacheKey),
                  !.size = Len(cache2)]

\* the key evictOldest selects: the first entry, in iteration order, whose
\* count is strictly below every count before it (<<>> stands for null)
\* evictOldest with the comparison turned round (count > lowestCount)
RECURSIVE OldestFrom_Highest(_, _, _, _)
OldestFrom_Highest(ac, i, oldestKey, lowestCount) ==
    IF i > Len(ac) THEN oldestKey
    ELSE IF lowestCount = -1 \/ ac[i].v > lowestCount
         THEN OldestFrom_Highest(ac, i + 1, ac[i].k, ac[i].v)
         ELSE OldestFrom_Highest(ac, i + 1, oldestKey, lowestCount)

RECURSIVE OldestFrom(_, _, _, _)
OldestFrom(ac, i, oldestKey, lowestCount) ==
    IF i > Len(ac) THEN oldestKey
    ELSE IF lowestCount = -1 \/ ac[i].v < lowestCount
         THEN OldestFrom(ac, i + 1, ac[i].k, ac[i].v)
         ELSE OldestFrom(ac, i + 1, oldestKey, lowestCount)

OldestKey(c) == OldestFrom(c.accessCount, 1, <<>>, -1)

\* SmartCache.evictOldest()
CacheEvictOldest(c) ==
    LET oldestKey == OldestKey(c)
    IN  IF oldestKey # <<>> THEN CacheDelete(c, ReplacePrefix(oldestKey)) ELSE c

\* set with the capacity test off by one (size > maxEntries)
CacheSet_EvictsLate(c, key, value, ttlMs, t) ==
    LET cacheKey == <<keyPrefix>> \o key
        c1 == IF Len(c.cache) > maxEntries THEN CacheEvictOldest(c) ELSE c
        cache2 == MapSet(c1.cache, cacheKey, value)
    IN  [c1 EXCEPT !.cache = cache2,
                   !.timestamps = MapSet(c1.timestamps, cacheKey, t + ttlMs),
                   !.accessCount = MapSet(c1.accessCount, cacheKey, 0),
                   !.size = Len(cache2)]

\* SmartCache.set(key, value, ttl)
CacheSet(c, key, value, ttlMs, t) ==
    LET cacheKey == <<keyPrefix>> \o key
        c1 == IF Len(c.cache) >= maxEntries THEN CacheEvictOldest(c) ELSE c
        cache2 == MapSet(c1.cache, cacheKey, value)
    IN  [c1 EXCEPT !.cache = cache2,
                   !.timestamps = MapSet(c1.timestamps, cacheKey, t + ttlMs),
                   !.accessCount = MapSet(c1.accessCount, cacheKey, 0),
                   !.size = Len(cache2)]

\* variant: get never looks at the expiry time
CacheGet_IgnoresTtl(c, key, t) ==
    LET cacheKey == <<keyPrefix>> \o key
    IN  IF ~MapHas(c.cache, cacheKey)
        THEN [c |-> [c EXCEPT !.misses = @ + 1],
              hit |-> FALSE, expired |-> FALSE, value |-> "null"]
        ELSE [c |-> [c EXCEPT !.accessCount =
                          MapSet(@, cacheKey, MapGet(@, cacheKey) + 1),
                                !.hits = @ + 1],
              hit |-> TRUE, expired |-> FALSE,
              value |-> MapGet(c.cache, cacheKey)]

\* SmartCache.get(key): [c |-> the cache afterwards, hit |-> FALSE for the
\* null return, value |-> the value returned on a hit]
CacheGet(c, key, t) ==
    LET cacheKey == <<keyPrefix>> \o key
    IN  IF ~MapHas(c.cache, cacheKey)
        THEN [c |-> [c EXCEPT !.misses = @ + 1],
              hit |-> FALSE, expired |-> FALSE, value |-> "null"]
        ELSE IF t > MapGet(c.timestamps, cacheKey)
        THEN [c |-> [CacheDelete(c, cacheKey) EXCEPT !.misses = @ + 1],
              hit |-> FALSE, expired |-> TRUE, value |-> "null"]
        ELSE [c |-> [c EXCEPT !.accessCount =
                          MapSet(@, cacheKey, MapGet(@, cacheKey) + 1),
                                !.hits = @ + 1],
              hit |-> TRUE, expired |-> FALSE,
              value |-> MapGet(c.cache, cacheKey)]

\* SmartCache.clear()
CacheClear(c) ==
    [c EXCEPT !.cache = <<>>, !.timestamps = <<>>, !.accessCount = <<>>,
              !.size = 0]

(***************************************************************************)
(* BatchProcessor                                                          *)
(***************************************************************************)
SheetIds == {"S1", "S2"}
\* the <<spreadsheet id, range>> pairs the operations address
Targets == {<<"S1", "A1:B2">>, <<"S1", "C1:D2">>, <<"S2", "A1:B2">>}

\* operation.type 'delete' is none of the types processSheetsData and
\* processDriveOperations know.  remoteOk is the remote service's answer to
\* the operation's first remote call, if it makes one: FALSE is an error
\* thrown by SpreadsheetApp.
SheetOperations ==
    [type : {"read", "write", "update"}, target : Targets,
     values : {"new"}, remoteOk : BOOLEAN]
      \cup [type : {"delete"}, target : {<<"S1", "A1:B2">>},
            values : {"new"}, remoteOk : {TRUE}]

DriveOperations ==
    [type : {"createFolder", "moveFile", "setPermissions", "delete"},
     target : {<<"S1", "A1:B2">>}, values : {"new"}, remoteOk : {TRUE}]

RECURSIVE SeqsUpTo(_, _)
SeqsUpTo(S, n) ==
    IF n = 0 THEN {<<>>}
    ELSE LET shorter == SeqsUpTo(S, n - 1)
         IN  shorter \cup {Append(q, x) : q \in shorter, x \in S}

ReadKey(target) == <<"sheets_read", target[1], target[2]>>

\* createBatches slicing one item too many: items.slice(i, i + batchSize + 1)
RECURSIVE createBatches_SliceTooLong(_, _)
createBatches_SliceTooLong(items, batchSize) ==
    IF Len(items) = 0 THEN <<>>
    ELSE IF Len(items) <= batchSize THEN <<items>>
    ELSE <<SubSeq(items, 1, batchSize + 1)>>
            \o createBatches_SliceTooLong(
                  SubSeq(items, batchSize + 1, Len(items)), batchSize)

\* BatchProcessor.createBatches(items, batchSize): for (i = 0; i < length;
\* i += batchSize) batches.push(items.slice(i, i + batchSize))
RECURSIVE createBatches(_, _)
createBatches(items, batchSize) ==
    IF Len(items) = 0 THEN <<>>
    ELSE IF Len(items) <= batchSize THEN <<items>>
    ELSE <<SubSeq(items, 1, batchSize)>>
            \o createBatches(SubSeq(items, batchSize + 1, Len(items)), batchSize)

\* BatchProcessor.invalidateSheetCache(sheetId), over the entries of
\* smartCache.cache from position i on
RECURSIVE InvalidateFrom(_, _, _, _)
InvalidateFrom(c, entries, i, sheetId) ==
    IF i > Len(entries) THEN c
    ELSE IF \E j \in 1..Len(entries[i].k) : entries[i].k[j] = sheetId
         THEN InvalidateFrom(CacheDelete(c, ReplacePrefix(entries[i].k)),
                             entries, i + 1, sheetId)
         ELSE InvalidateFrom(c, entries, i + 1, sheetId)

\* invalidateSheetCache handing the stored key to delete as it is, without
\* stripping the prefix delete adds again
RECURSIVE InvalidateFrom_KeepsPrefix(_, _, _, _)
InvalidateFrom_KeepsPrefix(c, entries, i, sheetId) ==
    IF i > Len(entries) THEN c
    ELSE IF \E j \in 1..Len(entries[i].k) : entries[i].k[j] = sheetId
         THEN InvalidateFrom_KeepsPrefix(CacheDelete(c, entries[i].k),
                                         entries, i + 1, sheetId)
         ELSE InvalidateFrom_KeepsPrefix(c, entries, i + 1, sheetId)

invalidateSheetCache_KeepsPrefix(c, sheetId) ==
    InvalidateFrom_KeepsPrefix(c, c.cache, 1, sheetId)

invalidateSheetCache(c, sheetId) == InvalidateFrom(c, c.cache, 1, sheetId)

\* BatchProcessor.readSheetsData(operation) in world w = [c, store]:
\* threw is the exception escaping it
readSheetsData(w, operation, t) ==
    LET cacheKey == ReadKey(operation.target)
        cached == CacheGet(w.c, cacheKey, t)
    IN  IF cached.hit
        THEN [w |-> [w EXCEPT !.c = cached.c], threw |-> FALSE,
              data |-> cached.value, fromCache |-> TRUE]
        ELSE IF ~operation.remoteOk
        THEN [w |-> [w EXCEPT !.c = cached.c], threw |-> TRUE,
              data |-> "Service error: Spreadsheets", fromCache |-> FALSE]
        ELSE LET data == w.store[operation.target]
             IN  [w |-> [w EXCEPT !.c = CacheSet(cached.c, cacheKey, data, ttl, t)],
                  threw |-> FALSE, data |-> data, fromCache |-> FALSE]

\* BatchProcessor.writeSheetsData(operation)
writeSheetsData(w, operation, t) ==
    IF ~operation.remoteOk
    THEN [w |-> w, threw |-> TRUE, data |-> "Service error: Spreadsheets",
          fromCache |-> FALSE]
    ELSE [w |-> [c |-> invalidateSheetCache(w.c, operation.target[1]),
                 store |-> [w.store EXCEPT ![operation.target] = operation.values]],
          threw |-> FALSE, data |-> "rowsUpdated", fromCache |-> FALSE]

\* BatchProcessor.updateSheetsData(operation), for an operation with values
updateSheetsData(w, operation, t) ==
    IF ~operation.remoteOk
    THEN [w |-> w, threw |-> TRUE, data |-> "Service error: Spreadsheets",
          fromCache |-> FALSE]
    ELSE [w |-> [c |-> invalidateSheetCache(w.c, operation.target[1]),
                 store |-> [w.store EXCEPT ![operation.target] = operation.values]],
          threw |-> FALSE, data |-> "success", fromCache |-> FALSE]

\* the switch of processSheetsData
SheetsSwitch(w, operation, t) ==
    CASE operation.type = "read" -> readSheetsData(w, operation, t)
      [] operation.type = "write" -> writeSheetsData(w, operation, t)
      [] operation.type = "update" -> updateSheetsData(w, operation, t)
      [] OTHER -> [w |-> w, threw |-> TRUE,
                   data |-> "Unknown operation type", fromCache |-> FALSE]

\* the switch of processDriveOperations: BatchProcessor defines none of
\* createDriveFolder, moveDriveFile, setDrivePermissions, so each known type
\* throws a TypeError (this.createDriveFolder is not a function)
DriveSwitch(w, operation, t) ==
    CASE operation.type \in {"createFolder", "moveFile", "setPermissions"} ->
            [w |-> w, threw |-> TRUE, data |-> "is not a function",
             fromCache |-> FALSE]
      [] OTHER -> [w |-> w, threw |-> TRUE,
                   data |-> "Unknown operation type", fromCache |-> FALSE]

\* one iteration of the for loop of processSheetsData / processDriveOperations:
\* the try block and its catch.  The entry of the log is a record of the
\* execution kept for the claims: whether the value came from the cache, the
\* keys cached and the remote value once the operation has run.
ProcessOperation(kind, w, operation, t) ==
    LET r == IF kind = "sheets" THEN SheetsSwitch(w, operation, t)
             ELSE DriveSwitch(w, operation, t)
    IN  [w |-> r.w,
         result |-> IF r.threw
                    THEN [success |-> FALSE, error |-> r.data, op |-> operation]
                    ELSE [success |-> TRUE, data |-> r.data, op |-> operation],
         log |-> [op |-> operation, fromCache |-> r.fromCache,
                  cachedKeys |-> MapKeys(r.w.c.cache),
                  remote |-> r.w.store[operation.target]]]

\* processSheetsData with the try/catch around the loop instead of inside
\* it: the first failure ends the chunk
RECURSIVE ProcessBatch_AbortOnError(_, _, _, _)
ProcessBatch_AbortOnError(kind, w, ops, t) ==
    IF ops = <<>> THEN [w |-> w, results |-> <<>>, log |-> <<>>]
    ELSE LET r == ProcessOperation(kind, w, Head(ops), t)
             rest == IF r.result.success
                     THEN ProcessBatch_AbortOnError(kind, r.w, Tail(ops), t)
                     ELSE [w |-> r.w, results |-> <<>>, log |-> <<>>]
         IN  [w |-> rest.w, results |-> <<r.result>> \o rest.results,
              log |-> <<r.log>> \o rest.log]

\* BatchProcessor.processSheetsData(batch) / processDriveOperations(batch)
RECURSIVE ProcessBatch(_, _, _, _)
ProcessBatch(kind, w, ops, t) ==
    IF ops = <<>> THEN [w |-> w, results |-> <<>>, log |-> <<>>]
    ELSE LET r == ProcessOperation(kind, w, Head(ops), t)
             rest == ProcessBatch(kind, r.w, Tail(ops), t)
         IN  [w |-> rest.w, results |-> <<r.result>> \o rest.results,
              log |-> <<r.log>> \o rest.log]

BatchSize(kind) == IF kind = "sheets" THEN sheetsAPI ELSE driveAPI

\* the rate limiting pause after a chunk: delay(100) and delay(200)
DelayMs(kind) == IF kind = "sheets" THEN 100 ELSE 200

NoBatch == [phase |-> "idle"]

(***************************************************************************)
(* OptimizedSheetOperations: the search index                              *)
(***************************************************************************)
Range(q) == {q[i] : i \in 1..Len(q)}

\* String.prototype.toLowerCase() on the cell values of the model
ToLowerCase(v) ==
    CASE v = "Pending" -> "pending"
      [] v = "Processing" -> "processing"
      [] v = "Acme" -> "acme"
      [] v = "Bolt" -> "bolt"
      [] OTHER -> v

\* the inner for loop of buildSearchIndex for column col, from row r of
\* data on (data[1] is the header row, so JavaScript's rowIndex is r - 1):
\* an empty cell is skipped (if (value))
RECURSIVE ColumnIndexFrom(_, _, _, _)
ColumnIndexFrom(data, col, r, m) ==
    IF r > Len(data) THEN m
    ELSE LET value == data[r][col]
             valueStr == ToLowerCase(value)
             rows == IF MapHas(m, valueStr) THEN MapGet(m, valueStr) ELSE <<>>
         IN  IF value # ""
             THEN ColumnIndexFrom(data, col, r + 1,
                                  MapSet(m, valueStr, Append(rows, r - 1)))
             ELSE ColumnIndexFrom(data, col, r + 1, m)

\* OptimizedSheetOperations.buildSearchIndex(data, headers): index[header]
\* is assigned once per column, so of two columns with one header the later
\* one stays
buildSearchIndex(data, headers) ==
    [header \in Range(headers) |->
        LET colIndex == CHOOSE c \in 1..Len(headers) :
                            /\ headers[c] = header
                            /\ \A d \in 1..Len(headers) :
                                  headers[d] = header => d <= c
        IN  ColumnIndexFrom(data, colIndex, 2, <<>>)]

\* the body of the forEach of searchWithIndex for one [column, value] entry
\* of criteria; matchingRows is the Set, in insertion order
MatchCriterion(idx, matchingRows, criterion) ==
    IF criterion.column \in DOMAIN idx
    THEN LET valueStr == ToLowerCase(criterion.value)
             rows == IF MapHas(idx[criterion.column], valueStr)
                     THEN MapGet(idx[criterion.column], valueStr)
                     ELSE <<>>
         IN  IF Len(matchingRows) = 0
             THEN rows
             ELSE SelectSeq(rows, LAMBDA row : row \in Range(matchingRows))
    ELSE matchingRows

RECURSIVE SearchFrom(_, _, _, _)
SearchFrom(idx, criteria, i, matchingRows) ==
    IF i > Len(criteria) THEN matchingRows
    ELSE SearchFrom(idx, criteria, i + 1,
                    MatchCriterion(idx, matchingRows, criteria[i]))

\* OptimizedSheetOperations.searchWithIndex(index, criteria); criteria is
\* the sequence Object.entries(criteria)
searchWithIndex(idx, criteria) == SearchFrom(idx, criteria, 1, <<>>)

\* the sheets of the model: a header row and up to MaxRows data rows
StatusCells == {"Pending", "pending", "Done", ""}
ClientCells == {"Acme", "Bolt"}
OrderHeaders == <<"Status", "Client">>

RECURSIVE RowsUpTo(_, _)
RowsUpTo(S, n) ==
    IF n = 0 THEN {<<>>}
    ELSE LET shorter == RowsUpTo(S, n - 1)
         IN  shorter \cup {Append(q, x) : q \in {r \in shorter : Len(r) = n - 1},
                                          x \in S}

OrderSheets ==
    {<<OrderHeaders>> \o rows :
        rows \in RowsUpTo({<<st, cl>> : st \in StatusCells, cl \in ClientCells},
                          MaxRows)}

\* the criteria objects of the model: one entry, or two on different columns
StatusCriteria == [column : {"Status"}, value : {"Pending", "Done", ""}]
ClientCriteria == [column : {"Client"}, value : {"Acme", "Bolt"}]
OtherCriteria == [column : {"Priority"}, value : {"High"}]
Criterion == StatusCriteria \cup ClientCriteria \cup OtherCriteria
Criteria ==
    {<<>>} \cup {<<c>> : c \in Criterion}
      \cup {pair \in {<<c, d>> : c \in Criterion, d \in Criterion} :
                pair[1].column # pair[2].column}

OrdersTab == <<"S1", "Order_Management">>

\* JSON.stringify(searchCriteria), as tokens
RECURSIVE Stringify(_)
Stringify(criteria) ==
    IF criteria = <<>> THEN <<>>
    ELSE <<Head(criteria).column, Head(criteria).value>>
            \o Stringify(Tail(criteria))

\* OptimizedSheetOperations(sheetId).optimizedSearch(sheetName, criteria) in
\* world w = [c, store]: ret is the array returned
optimizedSearch(w, sheetId, sheetName, criteria, t) ==
    LET cacheKey == <<"search", sheetName>> \o Stringify(criteria)
        cached == CacheGet(w.c, cacheKey, t)
        data == w.store[<<sheetId, sheetName>>]
        headers == data[1]
        indexKey == <<"index", sheetName>>
        indexed == CacheGet(cached.c, indexKey, t)
        idx == IF indexed.hit THEN indexed.value
               ELSE buildSearchIndex(data, headers)
        c2 == IF indexed.hit THEN indexed.c
              ELSE CacheSet(indexed.c, indexKey, idx, IndexTtl, t)
        results == searchWithIndex(idx, criteria)
    IN  IF cached.hit
        THEN [w |-> [w EXCEPT !.c = cached.c], ret |-> cached.value,
              fromCache |-> TRUE]
        ELSE [w |-> [w EXCEPT !.c = CacheSet(c2, cacheKey, results, SearchTtl, t)],
              ret |-> results, fromCache |-> FALSE]

\* the sheets and queries of the search scenario
SearchSheets ==
    {sh \in OrderSheets :
        \A r \in 2..Len(sh) : sh[r][1] \in {"Pending", "Done"} /\ sh[r][2] = "Acme"}
SearchCriteria == {<<c>> : c \in StatusCriteria}

(***************************************************************************)
(* PerformanceMonitor                                                      *)
(***************************************************************************)
NoMonitor == [queries |-> <<>>, errors |-> <<>>, queryCount |-> 0, errorCount |-> 0]

\* trackQuery(operation, duration, rowCount); warned records the console.warn
trackQuery(m, operation, duration, rowCount) ==
    [m EXCEPT !.queries =
                 Append(@, [operation |-> operation, duration |-> duration,
                            rowCount |-> rowCount,
                            performance |-> IF duration < queryTime
                                            THEN "good" ELSE "slow",
                            warned |-> duration > queryTime]),
              !.queryCount = @ + 1]

\* trackError(error, context)
trackError(m, error, context) ==
    [m EXCEPT !.errors = Append(@, [error |-> error, context |-> context]),
              !.errorCount = @ + 1]

\* getPerformanceSummary().slowQueries
slowQueries(m) ==
    Cardinality({i \in DOMAIN m.queries : m.queries[i].performance = "slow"})

(***************************************************************************)
(* Drive folder automation.  drive.folders and drive.files are the remote  *)
(* store: a folder's id is its position in drive.folders (createFolder     *)
(* hands out fresh ids), parent 0 is the Drive's top level, and            *)
(* drive.rootFolderId is the script property TRADE_OPERATIONS_FOLDER_ID    *)
(* (0 while unset).  A name is a sequence of tokens, each token a piece of *)
(* the string ("ORD", "-", "2024", ... or a single character).  Folder and *)
(* file iterators list the children a parent holds, trashed ones included; *)
(* an iterator's next() is taken to be the child created first.            *)
(***************************************************************************)
NoDrive == [folders |-> <<>>, files |-> <<>>, rootFolderId |-> 0, calls |-> 0]
NoHistory == [walks |-> {}, calls |-> {}, links |-> {}, provisioned |-> {}]

Least(S) == CHOOSE x \in S : \A y \in S : x <= y

Leaves(names) == [i \in DOMAIN names |-> [name |-> <<names[i]>>, sub |-> <<>>]]

\* DRIVE_CONFIG.orderFolderStructure
orderFolderStructure ==
    << [name |-> <<"Documents">>,
        sub |-> Leaves(<<"Quotes", "Contracts", "Invoices", "Certificates">>)],
       [name |-> <<"Communications">>,
        sub |-> Leaves(<<"Emails", "WeChat_Logs", "Phone_Records">>)],
       [name |-> <<"Attachments">>,
        sub |-> Leaves(<<"Product_Specs", "Shipping_Docs", "Quality_Reports",
                         "Photos">>)],
       [name |-> <<"Internal">>,
        sub |-> Leaves(<<"Production_Notes", "Quality_Control",
                         "Logistics_Planning">>)] >>

\* the subfolders createOrderFolder of the order sheet makes
sheetFolderStructure ==
    << [name |-> <<"Documents">>, sub |-> <<>>],
       [name |-> <<"Communications">>, sub |-> Leaves(<<"Emails", "WeChat_Logs">>)],
       [name |-> <<"Attachments">>,
        sub |-> Leaves(<<"Product_Specs", "Shipping_Docs">>)] >>

WithFiles(name, files) == [name |-> <<name>>, files |-> files]

\* DRIVE_CONFIG.rootStructure.Trade_Operations
rootStructure ==
    << [name |-> <<"01_Orders">>, sub |-> <<>>],
       [name |-> <<"02_Templates">>,
        sub |-> << WithFiles("Documents", <<"Quote_Template.docx",
                       "Contract_Template.docx", "Invoice_Template.docx">>),
                   WithFiles("Emails", <<"Welcome_Email.html",
                       "Order_Confirmation.html", "Shipping_Notice.html">>),
                   WithFiles("Reports", <<"Daily_Report.xlsx",
                       "Weekly_Summary.xlsx", "Monthly_Analysis.xlsx">>) >>],
       [name |-> <<"03_Marketing">>,
        sub |-> << WithFiles("Campaigns", <<>>), WithFiles("Leads", <<>>),
                   WithFiles("Analytics", <<>>) >>],
       [name |-> <<"04_Archive">>, sub |-> <<>>],
       [name |-> <<"05_Documentation">>,
        sub |-> << WithFiles("API_Docs", <<>>), WithFiles("Process_Guides", <<>>),
                   WithFiles("Training_Materials", <<>>) >>] >>

\* a folder that Drive has deleted for good: no folder lists it, and
\* getFolderById on its id throws
Purged(d, i) == d.folders[i].parent = -1

\* parentFolder.getFoldersByName(name)
getFoldersByName(d, parentFolder, name) ==
    {i \in 1..Len(d.folders) :
        d.folders[i].parent = parentFolder /\ d.folders[i].name = name}

\* parentFolder.getFolders() and parentFolder.getFiles()
getFolders(d, parentFolder) ==
    {i \in 1..Len(d.folders) : d.folders[i].parent = parentFolder}

getFiles(d, parentFolder) ==
    {i \in 1..Len(d.files) : d.files[i].parent = parentFolder}

createFolder(d, parentFolder, name) ==
    [d EXCEPT !.folders =
        Append(@, [name |-> name, parent |-> parentFolder, trashed |-> FALSE])]

createFile(d, parentFolder, name) ==
    [d EXCEPT !.files = Append(@, [name |-> name, parent |-> parentFolder])]

\* variant: never looks the child up
getOrCreateFolder_AlwaysCreates(d, parentFolder, name) ==
    [d |-> createFolder(d, parentFolder, name), id |-> Len(d.folders) + 1]

getOrCreateFolder(d, parentFolder, name) ==
    LET folders == getFoldersByName(d, parentFolder, name)
    IN  IF folders # {}
        THEN [d |-> d, id |-> Least(folders)]
        ELSE [d |-> createFolder(d, parentFolder, name), id |-> Len(d.folders) + 1]

fileExists(d, folder, filename) ==
    \E i \in getFiles(d, folder) : d.files[i].name = filename

\* createStructure of createOrderSubfolders: one entry, then the loop over
\* Object.entries(structure)
RECURSIVE createStructure(_, _, _)
CreateEntry(d, parentFolder, entry) ==
    LET subfolder == getOrCreateFolder(d, parentFolder, entry.name)
    IN  IF Len(entry.sub) > 0
        THEN createStructure(subfolder.d, subfolder.id, entry.sub)
        ELSE subfolder.d

createStructure(d, parentFolder, structure) ==
    IF Len(structure) = 0 THEN d
    ELSE LET made == CreateEntry(d, parentFolder, Head(structure))
         IN  IF made = d   \* every folder of the entry was found
             THEN createStructure(d, parentFolder, Tail(structure))
             ELSE createStructure(made, parentFolder, Tail(structure))

createOrderSubfolders(d, orderFolder) ==
    createStructure(d, orderFolder, orderFolderStructure)

RECURSIVE CreateFiles(_, _, _)
CreateFiles(d, subfolder, filenames) ==
    IF Len(filenames) = 0 THEN d
    ELSE IF fileExists(d, subfolder, Head(filenames))
         THEN CreateFiles(d, subfolder, Tail(filenames))
         ELSE CreateFiles(createFile(d, subfolder, Head(filenames)),
                          subfolder, Tail(filenames))

CreateSubfolder(d, parentFolder, entry) ==
    LET subfolder == getOrCreateFolder(d, parentFolder, entry.name)
    IN  CreateFiles(subfolder.d, subfolder.id, entry.files)

RECURSIVE createSubfolderStructure(_, _, _)
createSubfolderStructure(d, parentFolder, structure) ==
    IF Len(structure) = 0 THEN d
    ELSE LET made == CreateSubfolder(d, parentFolder, Head(structure))
         IN  IF made = d   \* the folder and its files were found
             THEN createSubfolderStructure(d, parentFolder, Tail(structure))
             ELSE createSubfolderStructure(made, parentFolder, Tail(structure))

CreateMainFolder(d, rootFolder, entry) ==
    LET mainFolder == getOrCreateFolder(d, rootFolder, entry.name)
    IN  IF Len(entry.sub) > 0
        THEN createSubfolderStructure(mainFolder.d, mainFolder.id, entry.sub)
        ELSE mainFolder.d

RECURSIVE CreateMainFolders(_, _, _)
CreateMainFolders(d, rootFolder, structure) ==
    IF Len(structure) = 0 THEN d
    ELSE LET made == CreateMainFolder(d, rootFolder, Head(structure))
         IN  IF made = d   \* the folder and all below it were found
             THEN CreateMainFolders(d, rootFolder, Tail(structure))
             ELSE CreateMainFolders(made, rootFolder, Tail(structure))

\* DriveApp.getFoldersByName('Trade_Operations') looks through the whole Drive
createRootStructure(d) ==
    LET existingFolders == {i \in 1..Len(d.folders) :
                               d.folders[i].name = <<"Trade_Operations">>}
        rootFolder == IF existingFolders # {} THEN Least(existingFolders)
                      ELSE Len(d.folders) + 1
        d1 == IF existingFolders # {} THEN d
              ELSE createFolder(d, 0, <<"Trade_Operations">>)
    IN  [d |-> CreateMainFolders(d1, rootFolder, rootStructure), id |-> rootFolder]

\* storeSystemFolderIds
storeSystemFolderIds(d, rootFolder) ==
    LET d0 == [d EXCEPT !.rootFolderId = rootFolder]
        ordersFolder == getOrCreateFolder(d0, rootFolder, <<"01_Orders">>)
        templatesFolder == getOrCreateFolder(ordersFolder.d, rootFolder, <<"02_Templates">>)
        archiveFolder == getOrCreateFolder(templatesFolder.d, rootFolder, <<"04_Archive">>)
    IN  archiveFolder.d

initializeDriveSystem(d) ==
    LET rootFolder == createRootStructure(d)
    IN  storeSystemFolderIds(rootFolder.d, rootFolder.id)

\* orderId.split('-'): the pieces between the "-" tokens
RECURSIVE SplitFrom(_, _, _)
SplitFrom(s, i, piece) ==
    IF i > Len(s) THEN <<piece>>
    ELSE IF s[i] = "-" THEN <<piece>> \o SplitFrom(s, i + 1, <<>>)
    ELSE SplitFrom(s, i + 1, Append(piece, s[i]))

Split(s) == SplitFrom(s, 1, <<>>)

\* parseInt of a two-digit piece; anything else parses to NaN
TwoDigits ==
    <<"00", "01", "02", "03", "04", "05", "06", "07", "08", "09", "10", "11",
      "12", "13">>

parseInt(piece) ==
    IF Len(piece) = 1 /\ \E n \in DOMAIN TwoDigits : TwoDigits[n] = piece[1]
    THEN [nan |-> FALSE,
          n |-> (CHOOSE n \in DOMAIN TwoDigits : TwoDigits[n] = piece[1]) - 1]
    ELSE [nan |-> TRUE]

\* `Q${Math.ceil(month / 3)}`
QuarterNames == <<"Q0", "Q1", "Q2", "Q3", "Q4", "Q5">>

Quarter(month) ==
    IF month.nan THEN <<"QNaN">>
    ELSE <<QuarterNames[((month.n + 2) \div 3) + 1]>>

IllegalChars == {"<", ">", ":", "\"", "/", "\\", "|", "?", "*"}

\* a replace without the g flag: only the first illegal character is replaced
sanitizeFolderName_FirstOnly(name) ==
    LET hits == {i \in DOMAIN name : name[i] \in IllegalChars}
        replaced == [i \in DOMAIN name |->
                        IF i \in hits /\ \A j \in hits : i <= j THEN "_" ELSE name[i]]
    IN  SubSeq(replaced, 1, IF Len(replaced) < 50 THEN Len(replaced) ELSE 50)

\* name.replace(/[<>:"/\\|?*]/g, '_').substring(0, 50)
sanitizeFolderName(name) ==
    LET replaced == [i \in DOMAIN name |->
                        IF name[i] \in IllegalChars THEN "_" ELSE name[i]]
    IN  SubSeq(replaced, 1, IF Len(replaced) < 50 THEN Len(replaced) ELSE 50)

\* clientEmail.includes('@')
HasAt(clientEmail) == \E i \in DOMAIN clientEmail : clientEmail[i] = "@"

\* setOrderFolderPermissions: sharing settings are not part of the tree
setOrderFolderPermissions(d, orderFolder, clientEmail) ==
    IF HasAt(clientEmail)
    THEN getOrCreateFolder(d, orderFolder, <<"Client_Access">>).d
    ELSE d

createOrderMetadata(d, orderFolder) ==
    createFile(d, orderFolder, "_order_metadata.json")

\* a catch block that throws the error on instead of returning a value
ErrorResult_Rethrows(message) ==
    [ok |-> FALSE, error |-> message, folderId |-> 0, folderPath |-> <<"ERROR">>,
     escaped |-> TRUE]

\* the value the catch block returns
ErrorResult(message) ==
    [ok |-> FALSE, error |-> message, folderId |-> 0, folderPath |-> <<"ERROR">>]

NoWalk == [done |-> FALSE, failed |-> FALSE]

\* the catch block after a remote call of the walk has raised: resolved is
\* the last folder the walk had reached
RemoteFailure(d, resolved) ==
    [d |-> d, ret |-> ErrorResult("Remote failure"),
     walk |-> [done |-> FALSE, failed |-> TRUE, resolved |-> resolved]]

\* failAt is the level of the walk (1 = 01_Orders, 2 = year, 3 = quarter,
\* 4 = order folder) whose remote call raises, 0 if none does
createAdvancedOrderFolder(d, orderId, clientName, clientEmail, failAt) ==
    IF d.rootFolderId = 0
    THEN [d |-> d, ret |-> ErrorResult("Root folder ID not found"), walk |-> NoWalk]
    ELSE IF failAt = 1 THEN RemoteFailure(d, d.rootFolderId)
    ELSE
    LET ordersFolder == getOrCreateFolder(d, d.rootFolderId, <<"01_Orders">>)
        orderParts == Split(orderId)
    IN  IF Len(orderParts) # 4
        THEN [d |-> ordersFolder.d, ret |-> ErrorResult("Invalid Order ID format"),
              walk |-> NoWalk]
        ELSE IF failAt = 2 THEN RemoteFailure(ordersFolder.d, ordersFolder.id)
        ELSE
        LET year == orderParts[2]
            month == parseInt(orderParts[3])
            quarter == Quarter(month)
            yearFolder == getOrCreateFolder(ordersFolder.d, ordersFolder.id, year)
            quarterFolder == getOrCreateFolder(yearFolder.d, yearFolder.id, quarter)
            sanitizedClientName == sanitizeFolderName(clientName)
            orderFolderName == orderId \o <<"_">> \o sanitizedClientName
            orderFolder == getOrCreateFolder(quarterFolder.d, quarterFolder.id,
                                             orderFolderName)
            d1 == createOrderSubfolders(orderFolder.d, orderFolder.id)
            d2 == setOrderFolderPermissions(d1, orderFolder.id, clientEmail)
            d3 == createOrderMetadata(d2, orderFolder.id)
        IN  IF failAt = 3 THEN RemoteFailure(yearFolder.d, yearFolder.id)
            ELSE IF failAt = 4 THEN RemoteFailure(quarterFolder.d, quarterFolder.id)
            ELSE
            [d |-> d3,
             ret |-> [ok |-> TRUE, folderId |-> orderFolder.id,
                      folderPath |-> year \o <<"/">> \o quarter \o <<"/">>
                                          \o orderFolderName],
             walk |-> [done |-> TRUE, failed |-> FALSE,
                       path |-> <<<<"01_Orders">>, year, quarter, orderFolderName>>,
                       id |-> orderFolder.id,
                       creates |-> Len(orderFolder.d.folders) - Len(d.folders)]]

\* createOrderFolder(orderId, clientName), the custom function of the order
\* sheet's Drive_Folder_Link formula
createOrderFolder(d, orderId, clientName) ==
    IF d.rootFolderId = 0
    THEN [d |-> d, ret |-> 0, walk |-> NoWalk]
    ELSE
    LET orderParts == Split(orderId)
        year == orderParts[2]
        month == parseInt(orderParts[3])
        quarter == Quarter(month)
        ordersFolder == getOrCreateFolder(d, d.rootFolderId, <<"01_Orders">>)
        yearFolder == getOrCreateFolder(ordersFolder.d, ordersFolder.id, year)
        quarterFolder == getOrCreateFolder(yearFolder.d, yearFolder.id, quarter)
        orderFolderName == orderId \o <<"_">> \o clientName
        orderFolder == getOrCreateFolder(quarterFolder.d, quarterFolder.id,
                                         orderFolderName)
    IN  [d |-> createStructure(orderFolder.d, orderFolder.id, sheetFolderStructure),
         ret |-> orderFolder.id,
         walk |-> [done |-> TRUE,
                   path |-> <<<<"01_Orders">>, year, quarter, orderFolderName>>,
                   id |-> orderFolder.id,
                   creates |-> Len(orderFolder.d.folders) - Len(d.folders)]]

\* getArchiveFolder
getArchiveFolder(d) == getOrCreateFolder(d, d.rootFolderId, <<"04_Archive">>)

\* new Date(): the year and the yyyy-MM-dd stamp of the archival run
CurrentYear == <<"2025">>
Timestamp == "2025-06-30"

\* an archival that copies: a new folder in the archive, the original left
archiveCompletedOrder_Copies(d, folderId) ==
    IF folderId \notin 1..Len(d.folders)
    THEN [d |-> d, ret |-> FALSE]
    ELSE
    LET archiveFolder == getArchiveFolder(d)
        archivedName == d.folders[folderId].name \o <<"_archived_", Timestamp>>
        yearFolder == getOrCreateFolder(archiveFolder.d, archiveFolder.id, CurrentYear)
    IN  [d |-> createFolder(yearFolder.d, yearFolder.id, archivedName), ret |-> TRUE]

\* archiveCompletedOrder(orderId, folderUrl); folderId is what
\* extractFolderIdFromUrl finds in the link, 0 for ERROR_CREATING_FOLDER
archiveCompletedOrder(d, folderId) ==
    IF folderId \notin 1..Len(d.folders) \/ Purged(d, folderId)
    THEN [d |-> d, ret |-> FALSE]
    ELSE
    LET archiveFolder == getArchiveFolder(d)
        archivedName == d.folders[folderId].name \o <<"_archived_", Timestamp>>
        yearFolder == getOrCreateFolder(archiveFolder.d, archiveFolder.id, CurrentYear)
    IN  [d |-> [yearFolder.d EXCEPT !.folders[folderId].parent = yearFolder.id,
                                    !.folders[folderId].name = archivedName],
         ret |-> TRUE]

\* the loop of organizeCompletedOrders over the data rows from row i on:
\* each row that is Delivered and has a folder link is archived; link is the
\* folder id in the row's Drive_Folder_Link
RECURSIVE OrganizeFrom(_, _, _, _)
OrganizeFrom(d, rows, i, archivedCount) ==
    IF i > Len(rows) THEN [d |-> d, archivedCount |-> archivedCount]
    ELSE IF rows[i].status = "Delivered" /\ rows[i].link # 0
    THEN LET r == archiveCompletedOrder(d, rows[i].link)
         IN  IF r.ret
             THEN OrganizeFrom(r.d, rows, i + 1, archivedCount + 1)
             ELSE OrganizeFrom(d, rows, i + 1, archivedCount)
    ELSE OrganizeFrom(d, rows, i + 1, archivedCount)

organizeCompletedOrders(d, rows) == OrganizeFrom(d, rows, 1, 0)

RECURSIVE findEmptyFolders(_, _)
findEmptyFolders(d, parentFolder) ==
    UNION { IF getFiles(d, folder) = {} /\ getFolders(d, folder) = {}
            THEN {folder}
            ELSE findEmptyFolders(d, folder) : folder \in getFolders(d, parentFolder) }

\* cleanupEmptyFolders; getFolderById throws while the property is unset
cleanupEmptyFolders(d) ==
    IF d.rootFolderId = 0 THEN d
    ELSE LET emptyFolders == findEmptyFolders(d, d.rootFolderId)
         IN  [d EXCEPT !.folders =
                 [i \in DOMAIN @ |->
                     IF i \in emptyFolders /\ @[i].name # <<"Trade_Operations">>
                     THEN [@[i] EXCEPT !.trashed = TRUE]
                     ELSE @[i]]]

\* createOrderFolder as the sequence of its getOrCreateFolder calls: parent
\* is the number of the call whose folder is the parent, 0 for the root
FolderCalls(orderId, clientName) ==
    LET orderParts == Split(orderId)
    IN  << [parent |-> 0, name |-> <<"01_Orders">>],
           [parent |-> 1, name |-> orderParts[2]],
           [parent |-> 2, name |-> Quarter(parseInt(orderParts[3]))],
           [parent |-> 3, name |-> orderId \o <<"_">> \o clientName],
           [parent |-> 4, name |-> <<"Documents">>],
           [parent |-> 4, name |-> <<"Communications">>],
           [parent |-> 6, name |-> <<"Emails">>],
           [parent |-> 6, name |-> <<"WeChat_Logs">>],
           [parent |-> 4, name |-> <<"Attachments">>],
           [parent |-> 9, name |-> <<"Product_Specs">>],
           [parent |-> 9, name |-> <<"Shipping_Docs">>] >>

\* the executions of the custom function that run at once, one per row
Executions == {"row2", "row3"}
NoRunning == [e \in Executions |-> [pc |-> "idle"]]

\* order ids as the sheet holds them: the documented ORD-YYYY-MM-DD-NNN and
\* ids of four pieces
DocumentedOrderId == <<"ORD", "-", "2024", "-", "07", "-", "01", "-", "002">>
OrderIds ==
    { DocumentedOrderId,
      <<"ORD", "-", "2024", "-", "03", "-", "15", "-", "007">>,
      <<"ORD", "-", "2024", "-", "07", "-", "002">>,
      <<"ORD", "-", "2024", "-", "03", "-", "007">> }
\* an id cut short: two pieces
MalformedOrderIds == { <<"ORD", "-", "2024">> }
\* ids of four pieces whose month piece is no month
MalformedMonthIds ==
    { <<"ORD", "-", "2024", "-", "13", "-", "007">>,
      <<"ORD", "-", "2024", "-", "xx", "-", "007">> }
ClientNames == { <<"A", "c", "m", "e", " ", "L", "t", "d">>, <<"A", "/", "B">> }
ClientEmails == { <<>>, <<"c", "@", "x">> }

\* the levels of the provisioning walk: 01_Orders, year, quarter, order folder
WalkLevels == 1..4

\* the rows whose formulas run at once
RaceOrderIds == { DocumentedOrderId, <<"ORD", "-", "2024", "-", "07", "-", "002">> }
RaceClientNames == { <<"A", "c", "m", "e", " ", "L", "t", "d">> }

(***************************************************************************)
(* PMHelpers: the static agents array, by agent id.  currentTask is        *)
(* "undefined" while the field is unset.                                   *)
(***************************************************************************)
AgentIds ==
    {"n8n-automation-lead", "google-workspace-architect",
     "api-integration-specialist", "workflow-developer", "trade-pm-agent"}

InitialAgents == [id \in AgentIds |-> [status |-> "idle", currentTask |-> "undefined"]]

\* this.agents.find(a => a.id === agentId) finds an agent
Found(agentId) == agentId \in AgentIds

\* a handoff that sets the receiving side first
handoffTask_ToFirst(a, fromAgentId, toAgentId, taskDescription) ==
    IF ~Found(fromAgentId) \/ ~Found(toAgentId)
    THEN [agents |-> a, threw |-> TRUE, message |-> "One or both agents not found"]
    ELSE LET received == [a EXCEPT ![toAgentId] =
                             [status |-> "busy", currentTask |-> taskDescription]]
         IN  [agents |-> [received EXCEPT ![fromAgentId] =
                             [status |-> "idle", currentTask |-> "undefined"]],
              threw |-> FALSE, message |-> "Task handed off"]

\* assignTask(agentId, taskDescription)
assignTask(a, agentId, taskDescription) ==
    IF ~Found(agentId)
    THEN [agents |-> a, threw |-> TRUE, message |-> "Agent not found"]
    ELSE [agents |-> [a EXCEPT ![agentId] =
                         [status |-> "busy", currentTask |-> taskDescription]],
          threw |-> FALSE, message |-> "Task assigned"]

\* handoffTask(fromAgentId, toAgentId, taskDescription)
handoffTask(a, fromAgentId, toAgentId, taskDescription) ==
    IF ~Found(fromAgentId) \/ ~Found(toAgentId)
    THEN [agents |-> a, threw |-> TRUE, message |-> "One or both agents not found"]
    ELSE LET released == [a EXCEPT ![fromAgentId] =
                             [status |-> "idle", currentTask |-> "undefined"]]
         IN  [agents |-> [released EXCEPT ![toAgentId] =
                             [status |-> "busy", currentTask |-> taskDescription]],
              threw |-> FALSE, message |-> "Task handed off"]

\* the ids and tasks callers pass: the agents' ids and ids of no agent
CallerIds == AgentIds \cup {"invalid-from", "invalid-to"}
TaskDescriptions == {"Initial task", "Continued task"}

(***************************************************************************)
(* Actions: direct calls on the global smartCache                          *)
(***************************************************************************)
NoCall == [op |-> "none"]
NoIndex == [built |-> FALSE]

Init ==
    /\ smartCache = EmptyCache
    /\ now = 0
    /\ last = NoCall
    /\ store = [t \in Targets |-> "old"]
    /\ batch = NoBatch
    /\ index = NoIndex
    /\ drive = NoDrive
    /\ history = NoHistory
    /\ running = NoRunning
    /\ monitor = NoMonitor
    /\ expect = {}
    /\ agents = InitialAgents

\* clearExpiredCache(): the keys of the expired entries, prefix removed, in
\* the order of smartCache.timestamps, then smartCache.delete on each
ExpiredKeys(c, t) ==
    LET expired == SelectSeq(c.timestamps, LAMBDA e : t > e.v)
    IN  [i \in 1..Len(expired) |-> ReplacePrefix(expired[i].k)]

RECURSIVE DeleteEach(_, _)
DeleteEach(c, keysToDelete) ==
    IF keysToDelete = <<>> THEN c
    ELSE DeleteEach(CacheDelete(c, Head(keysToDelete)), Tail(keysToDelete))

clearExpiredCache(c, t) == DeleteEach(c, ExpiredKeys(c, t))

\* the entries a set on cache c evicts before it inserts
Evicted(c) ==
    IF Len(c.cache) >= maxEntries
    THEN MapKeys(c.cache) \ MapKeys(CacheEvictOldest(c).cache)
    ELSE {}

Tick ==
    /\ now + TickMs <= MaxTicks * TickMs
    /\ now' = now + TickMs
    /\ last' = [op |-> "tick"]
    /\ UNCHANGED <<agents, expect, monitor, running, drive, history, smartCache, store, batch, index>>

Set(key, value) ==
    /\ smartCache' = CacheSet(smartCache, key, value, ttl, now)
    /\ last' = [op |-> "set", key |-> key, value |-> value,
                evicted |-> Evicted(smartCache)]
    /\ expect' = {e \in expect : /\ e.key # key
                                  /\ <<keyPrefix>> \o e.key \notin Evicted(smartCache)}
                     \cup {[key |-> key, value |-> value, expires |-> now + ttl]}
    /\ UNCHANGED <<agents, monitor, running, drive, history, now, store, batch, index>>

Get(key) ==
    /\ smartCache.hits + smartCache.misses < MaxGets
    /\ LET r == CacheGet(smartCache, key, now)
       IN  /\ smartCache' = r.c
           /\ last' = [op |-> "get", key |-> key, hit |-> r.hit,
                       expired |-> r.expired, value |-> r.value]
    /\ UNCHANGED <<agents, expect, monitor, running, drive, history, now, store, batch, index>>

Delete(key) ==
    /\ smartCache' = CacheDelete(smartCache, key)
    /\ last' = [op |-> "delete", key |-> key]
    /\ expect' = {e \in expect : e.key # key}
    /\ UNCHANGED <<agents, monitor, running, drive, history, now, store, batch, index>>

Clear ==
    /\ smartCache' = CacheClear(smartCache)
    /\ last' = [op |-> "clear"]
    /\ expect' = {}
    /\ UNCHANGED <<agents, monitor, running, drive, history, now, store, batch, index>>

\* the scheduled clearExpiredCache run
ClearExpiredCache ==
    /\ smartCache' = clearExpiredCache(smartCache, now)
    /\ last' = [op |-> "clearExpiredCache"]
    /\ expect' = {e \in expect :
                     <<keyPrefix>> \o e.key \in MapKeys(clearExpiredCache(smartCache, now).cache)}
    /\ UNCHANGED <<agents, monitor, running, drive, history, now, store, batch, index>>

NextCache ==
    \/ Tick
    \/ ClearExpiredCache
    \/ \E key \in RawKeys, value \in CacheValues : Set(key, value)
    \/ \E key \in RawKeys : Get(key)
    \/ \E key \in RawKeys : Delete(key)
    \/ Clear

SpecCache == Init /\ [][NextCache]_vars


(***************************************************************************)
(* Actions: batchSheetsOperations(operations) and                          *)
(* batchDriveOperations(operations), one step per await                    *)
(***************************************************************************)
\* the call: createBatches, results = []
StartBatch(kind, operations) ==
    /\ batch.phase = "idle"
    /\ batch' = [phase |-> "process", kind |-> kind, operations |-> operations,
                 batches |-> createBatches(operations, BatchSize(kind)),
                 next |-> 1, results |-> <<>>, log |-> <<>>, dispatched |-> <<>>,
                 starts |-> <<>>, startTime |-> now]
    /\ last' = [op |-> "startBatch"]
    /\ UNCHANGED <<agents, expect, monitor, running, drive, history, smartCache, now, store, index>>

\* await this.processSheetsData(batch); results.push(...batchResult)
DispatchBatch ==
    /\ batch.phase = "process"
    /\ batch.next <= Len(batch.batches)
    /\ LET r == ProcessBatch(batch.kind, [c |-> smartCache, store |-> store],
                             batch.batches[batch.next], now)
       IN  /\ smartCache' = r.w.c
           /\ store' = r.w.store
           /\ batch' = [batch EXCEPT !.phase = "delay",
                                     !.results = @ \o r.results,
                                     !.log = @ \o r.log,
                                     !.dispatched = Append(@, batch.batches[batch.next]),
                                     !.starts = Append(@, [at |-> now,
                                                     finished |-> Len(batch.results)])]
    /\ last' = [op |-> "dispatch"]
    /\ UNCHANGED <<agents, expect, monitor, running, drive, history, now, index>>

\* a loop that does not await the delay: the next chunk starts at once
Delay_NotAwaited ==
    /\ batch.phase = "delay"
    /\ batch' = [batch EXCEPT !.phase = "process", !.next = @ + 1]
    /\ last' = [op |-> "delay"]
    /\ UNCHANGED <<agents, expect, monitor, running, drive, history, smartCache, now, store, index>>

\* await this.delay(100) / await this.delay(200)
Delay ==
    /\ batch.phase = "delay"
    /\ batch' = [batch EXCEPT !.phase = "process", !.next = @ + 1]
    /\ now' = now + DelayMs(batch.kind)
    /\ last' = [op |-> "delay"]
    /\ UNCHANGED <<agents, expect, monitor, running, drive, history, smartCache, store, index>>

\* the loop is over: trackQuery, return results
FinishBatch ==
    /\ batch.phase = "process"
    /\ batch.next > Len(batch.batches)
    /\ batch' = [batch EXCEPT !.phase = "done"]
    /\ monitor' = trackQuery(monitor,
                             IF batch.kind = "sheets" THEN "batchSheetsOperations"
                             ELSE "batchDriveOperations",
                             now - batch.startTime, Len(batch.operations))
    /\ last' = [op |-> "batch", threw |-> FALSE]
    /\ UNCHANGED <<agents, expect, running, drive, history, smartCache, now, store, index>>

NextBatch ==
    \/ /\ batch.phase = "idle"
       /\ \E operations \in SeqsUpTo(SheetOperations, MaxOps) :
             StartBatch("sheets", operations)
    \/ /\ batch.phase = "idle"
       /\ \E operations \in SeqsUpTo(DriveOperations, MaxOps) :
             StartBatch("drive", operations)
    \/ DispatchBatch
    \/ Delay
    \/ FinishBatch

SpecBatch == Init /\ [][NextBatch]_vars

(***************************************************************************)
(* Actions: calls on PMHelpers                                             *)
(***************************************************************************)
AssignTask(agentId, taskDescription) ==
    /\ LET r == assignTask(agents, agentId, taskDescription)
       IN  /\ agents' = r.agents
           /\ last' = [op |-> "assignTask", agentId |-> agentId,
                       task |-> taskDescription, threw |-> r.threw,
                       message |-> r.message]
    /\ UNCHANGED <<expect, monitor, running, drive, history, smartCache, now, store,
                   batch, index>>

HandoffTask(fromAgentId, toAgentId, taskDescription) ==
    /\ LET r == handoffTask(agents, fromAgentId, toAgentId, taskDescription)
       IN  /\ agents' = r.agents
           /\ last' = [op |-> "handoffTask", from |-> fromAgentId, to |-> toAgentId,
                       task |-> taskDescription, threw |-> r.threw,
                       message |-> r.message]
    /\ UNCHANGED <<expect, monitor, running, drive, history, smartCache, now, store,
                   batch, index>>

NextAgents ==
    \/ \E agentId \in CallerIds, taskDescription \in TaskDescriptions :
          AssignTask(agentId, taskDescription)
    \/ \E fromAgentId \in CallerIds, toAgentId \in CallerIds,
          taskDescription \in TaskDescriptions :
          HandoffTask(fromAgentId, toAgentId, taskDescription)

SpecAgents == Init /\ [][NextAgents]_vars

(***************************************************************************)
(* Actions: direct calls on the global performanceMonitor                  *)
(***************************************************************************)
\* Date.now() - startTime of the callers: around the threshold
Durations == {0, queryTime - 1, queryTime, queryTime + 1}
TrackedOperations == {"readSheetsData", "optimizedSearch"}

TrackQuery(operation, duration) ==
    /\ monitor.queryCount + monitor.errorCount < MaxTracked
    /\ monitor' = trackQuery(monitor, operation, duration, 0)
    /\ last' = [op |-> "trackQuery", duration |-> duration]
    /\ UNCHANGED <<agents, expect, running, drive, history, smartCache, now, store, batch, index>>

TrackError(context) ==
    /\ monitor.queryCount + monitor.errorCount < MaxTracked
    /\ monitor' = trackError(monitor, "Error", context)
    /\ last' = [op |-> "trackError"]
    /\ UNCHANGED <<agents, expect, running, drive, history, smartCache, now, store, batch, index>>

NextMonitor ==
    \/ \E operation \in TrackedOperations, duration \in Durations :
          TrackQuery(operation, duration)
    \/ \E context \in TrackedOperations : TrackError(context)

SpecMonitor == Init /\ [][NextMonitor]_vars

(***************************************************************************)
(* Actions: buildSearchIndex and searchWithIndex on a sheet                *)
(***************************************************************************)
InitIndex ==
    /\ smartCache = EmptyCache
    /\ now = 0
    /\ last = NoCall
    /\ store \in [{OrdersTab} -> OrderSheets]
    /\ batch = NoBatch
    /\ index = NoIndex
    /\ drive = NoDrive
    /\ history = NoHistory
    /\ running = NoRunning
    /\ monitor = NoMonitor
    /\ expect = {}
    /\ agents = InitialAgents

BuildIndex ==
    /\ ~index.built
    /\ index' = [built |-> TRUE,
                 idx |-> buildSearchIndex(store[OrdersTab], store[OrdersTab][1])]
    /\ last' = [op |-> "buildSearchIndex"]
    /\ UNCHANGED <<agents, expect, monitor, running, drive, history, smartCache, now, store, batch>>

Search(criteria) ==
    /\ index.built
    /\ last' = [op |-> "searchWithIndex", criteria |-> criteria,
                ret |-> searchWithIndex(index.idx, criteria)]
    /\ UNCHANGED <<agents, expect, monitor, running, drive, history, smartCache, now, store, batch, index>>

NextIndex ==
    \/ BuildIndex
    \/ \E criteria \in Criteria : Search(criteria)

SpecIndex == InitIndex /\ [][NextIndex]_vars

(***************************************************************************)
(* Actions: searches on sheet Order_Management of spreadsheet S1, and      *)
(* writes to it through BatchProcessor.writeSheetsData                     *)
(***************************************************************************)
InitSearch ==
    /\ smartCache = EmptyCache
    /\ now = 0
    /\ last = NoCall
    /\ store \in [{OrdersTab} -> SearchSheets]
    /\ batch = NoBatch
    /\ index = NoIndex
    /\ drive = NoDrive
    /\ history = NoHistory
    /\ running = NoRunning
    /\ monitor = NoMonitor
    /\ expect = {}
    /\ agents = InitialAgents

OptimizedSearch(criteria) ==
    /\ smartCache.hits + smartCache.misses < MaxGets
    /\ LET r == optimizedSearch([c |-> smartCache, store |-> store],
                                OrdersTab[1], OrdersTab[2], criteria, now)
       IN  /\ smartCache' = r.w.c
           /\ monitor' = IF r.fromCache
                         THEN trackQuery(monitor, "optimizedSearch_cached", 0, 0)
                         ELSE trackQuery(monitor, "optimizedSearch", 0, Len(r.ret))
           /\ last' = [op |-> "optimizedSearch", criteria |-> criteria,
                       ret |-> r.ret, fromCache |-> r.fromCache]
    /\ UNCHANGED <<agents, expect, running, drive, history, now, store, batch, index>>

SheetWrite(values, remoteOk) ==
    /\ LET r == writeSheetsData([c |-> smartCache, store |-> store],
                                [type |-> "write", target |-> OrdersTab,
                                 values |-> values, remoteOk |-> remoteOk], now)
       IN  /\ smartCache' = r.w.c
           /\ store' = r.w.store
           /\ last' = [op |-> "writeSheetsData", threw |-> r.threw]
    /\ UNCHANGED <<agents, expect, monitor, running, drive, history, now, batch, index>>

NextSearch ==
    \/ Tick
    \/ \E criteria \in SearchCriteria : OptimizedSearch(criteria)
    \/ \E values \in SearchSheets, remoteOk \in BOOLEAN :
          SheetWrite(values, remoteOk)

SpecSearch == InitSearch /\ [][NextSearch]_vars

(***************************************************************************)
(* Actions: the Drive folder automation, one step per call                 *)
(***************************************************************************)
\* the terminal folder an earlier walk of the path reached, no folder having
\* been moved or trashed since
Prior(path) ==
    IF \E w \in history.walks : w.path = path
    THEN [known |-> TRUE,
          id |-> (CHOOSE w \in history.walks : w.path = path).id]
    ELSE [known |-> FALSE]

Walked(walk) ==
    IF walk.done
    THEN {w \in history.walks : w.path # walk.path}
             \cup {[path |-> walk.path, id |-> walk.id]}
    ELSE history.walks

\* the folders a provisioning call that leaves the Drive as d has created
Provisioned(d) == history.provisioned \cup ((Len(drive.folders) + 1)..Len(d.folders))

Creates(d) == (Len(d.folders) + Len(d.files)) - (Len(drive.folders) + Len(drive.files))

InitializeDriveSystem ==
    /\ drive.calls < MaxDriveCalls
    /\ drive' = [initializeDriveSystem(drive) EXCEPT !.calls = @ + 1]
    /\ last' = [op |-> "initializeDriveSystem"]
    /\ UNCHANGED <<agents, expect, monitor, running, smartCache, now, store, batch, index, history>>

Provision(orderId, clientName, clientEmail, failAt) ==
    /\ drive.calls < MaxDriveCalls
    /\ LET r == createAdvancedOrderFolder(drive, orderId, clientName, clientEmail,
                                          failAt)
           args == <<orderId, clientName, clientEmail>>
       IN  /\ drive' = [r.d EXCEPT !.calls = @ + 1]
           /\ last' = [op |-> "createAdvancedOrderFolder", args |-> args,
                       ret |-> r.ret, creates |-> Creates(r.d),
                       repeat |-> {c.ret : c \in {c \in history.calls : c.args = args}},
                       walk |-> IF r.walk.done
                                THEN r.walk @@ [prior |-> Prior(r.walk.path)]
                                ELSE r.walk]
           /\ history' = [walks |-> Walked(r.walk),
                          calls |-> IF drive.rootFolderId = 0 \/ r.walk.failed
                                    THEN history.calls
                                    ELSE history.calls \cup
                                             {[args |-> args, ret |-> r.ret]},
                          links |-> history.links \cup {r.ret.folderId},
                          provisioned |-> Provisioned(r.d)]
    /\ UNCHANGED <<agents, expect, monitor, running, smartCache, now, store, batch, index>>

CreateOrderFolder(orderId, clientName) ==
    /\ drive.calls < MaxDriveCalls
    /\ LET r == createOrderFolder(drive, orderId, clientName)
       IN  /\ drive' = [r.d EXCEPT !.calls = @ + 1]
           /\ last' = [op |-> "createOrderFolder", args |-> <<orderId, clientName>>,
                       ret |-> r.ret, creates |-> Creates(r.d),
                       walk |-> IF r.walk.done
                                THEN r.walk @@ [prior |-> Prior(r.walk.path)]
                                ELSE r.walk]
           /\ history' = [history EXCEPT !.walks = Walked(r.walk),
                                         !.links = @ \cup {r.ret},
                                         !.provisioned = Provisioned(r.d)]
    /\ UNCHANGED <<agents, expect, monitor, running, smartCache, now, store, batch, index>>

\* archiveCompletedOrder on a row's Drive_Folder_Link
ArchiveCompletedOrder(folderId) ==
    /\ drive.calls < MaxDriveCalls
    /\ LET r == archiveCompletedOrder(drive, folderId)
       IN  /\ drive' = [r.d EXCEPT !.calls = @ + 1]
           /\ last' = [op |-> "archiveCompletedOrder", folderId |-> folderId,
                       ret |-> r.ret]
           /\ history' = IF r.ret
                         THEN [history EXCEPT !.walks = {}, !.calls = {}]
                         ELSE history
    /\ UNCHANGED <<agents, expect, monitor, running, smartCache, now, store, batch, index>>

\* Drive empties the trash: the folders that cleanupEmptyFolders trashed and
\* that are still empty are deleted for good
EmptyTrash ==
    LET gone == {i \in 1..Len(drive.folders) :
                    /\ drive.folders[i].trashed
                    /\ ~Purged(drive, i)
                    /\ getFolders(drive, i) = {}
                    /\ getFiles(drive, i) = {}}
    IN  /\ gone # {}
        /\ drive' = [drive EXCEPT !.folders =
                        [i \in DOMAIN @ |->
                            IF i \in gone THEN [@[i] EXCEPT !.parent = -1] ELSE @[i]]]
        /\ last' = [op |-> "emptyTrash"]
        /\ history' = [history EXCEPT !.walks = {}, !.calls = {}]
        /\ UNCHANGED <<agents, expect, monitor, running, smartCache, now, store, batch,
                       index>>

CleanupEmptyFolders ==
    /\ drive.calls < MaxDriveCalls
    /\ LET d == cleanupEmptyFolders(drive)
       IN  /\ drive' = [d EXCEPT !.calls = @ + 1]
           /\ last' = [op |-> "cleanupEmptyFolders"]
           /\ history' = IF d.folders # drive.folders
                         THEN [history EXCEPT !.walks = {}, !.calls = {}]
                         ELSE history
    /\ UNCHANGED <<agents, expect, monitor, running, smartCache, now, store, batch, index>>

NextDrive ==
    \/ InitializeDriveSystem
    \/ \E orderId \in OrderIds \cup MalformedOrderIds \cup MalformedMonthIds,
          clientName \in ClientNames,
          clientEmail \in ClientEmails : Provision(orderId, clientName, clientEmail, 0)
    \/ \E orderId \in OrderIds, clientName \in ClientNames, failAt \in WalkLevels :
          Provision(orderId, clientName, <<>>, failAt)
    \/ \E orderId \in OrderIds, clientName \in ClientNames :
          CreateOrderFolder(orderId, clientName)
    \/ \E folderId \in history.links : ArchiveCompletedOrder(folderId)
    \/ CleanupEmptyFolders
    \/ EmptyTrash

SpecDrive == Init /\ [][NextDrive]_vars


(***************************************************************************)
(* Actions: the weekly organizeCompletedOrders run on the Order_Management *)
(* sheet, whose rows hold the folders their formulas have created          *)
(***************************************************************************)
OrderManagement == "Order_Management"
OrderStatuses == {"Processing", "Delivered"}
SheetOrders ==
    << [orderId |-> <<"ORD", "-", "2024", "-", "07", "-", "002">>,
        clientName |-> <<"A", "c", "m", "e">>],
       [orderId |-> <<"ORD", "-", "2024", "-", "03", "-", "007">>,
        clientName |-> <<"B", "o", "l", "t">>] >>

InitArchive ==
    LET d0 == initializeDriveSystem(NoDrive)
        r1 == createOrderFolder(d0, SheetOrders[1].orderId, SheetOrders[1].clientName)
        r2 == createOrderFolder(r1.d, SheetOrders[2].orderId, SheetOrders[2].clientName)
    IN  /\ smartCache = EmptyCache
        /\ now = 0
        /\ last = NoCall
        /\ \E s1 \in OrderStatuses, s2 \in OrderStatuses :
               store = [t \in {OrderManagement} |->
                          << [orderId |-> SheetOrders[1].orderId, status |-> s1,
                              link |-> r1.ret],
                             [orderId |-> SheetOrders[2].orderId, status |-> s2,
                              link |-> r2.ret] >>]
        /\ batch = NoBatch
        /\ index = NoIndex
        /\ drive = r2.d
        /\ history = [NoHistory EXCEPT !.links = {r1.ret, r2.ret}]
        /\ running = NoRunning
        /\ monitor = NoMonitor
        /\ expect = {}
        /\ agents = InitialAgents

\* the time-based trigger fires
OrganizeCompletedOrders ==
    /\ drive.calls < MaxDriveCalls
    /\ LET r == organizeCompletedOrders(drive, store[OrderManagement])
       IN  /\ drive' = [r.d EXCEPT !.calls = @ + 1]
           /\ last' = [op |-> "organizeCompletedOrders",
                       archivedCount |-> r.archivedCount]
    /\ UNCHANGED <<agents, expect, monitor, running, smartCache, now, store, batch,
                   index, history>>

\* a user sets the Order_Status cell of a row
EditStatus(row, status) ==
    /\ store[OrderManagement][row].status # status
    /\ store' = [store EXCEPT ![OrderManagement][row].status = status]
    /\ last' = [op |-> "edit"]
    /\ UNCHANGED <<agents, expect, monitor, running, smartCache, now, drive, batch,
                   index, history>>

NextArchive ==
    \/ OrganizeCompletedOrders
    \/ \E row \in DOMAIN SheetOrders, status \in OrderStatuses : EditStatus(row, status)
    \/ \E folderId \in history.links : ArchiveCompletedOrder(folderId)

SpecArchive == InitArchive /\ [][NextArchive]_vars

(***************************************************************************)
(* Actions: createAdvancedOrderFolder on client names of every shape, on a *)
(* Drive that initializeDriveSystem has set up                             *)
(***************************************************************************)
\* the strings of at most n of the characters of alphabet
RECURSIVE Strings(_, _)
Strings(alphabet, n) ==
    IF n = 0 THEN {<<>>}
    ELSE LET shorter == Strings(alphabet, n - 1)
         IN  shorter \cup {Append(t, c) : t \in shorter, c \in alphabet}

Padding(n) == [i \in 1..n |-> "x"]

\* client names: short ones, and ones that reach past the 50th character,
\* with legal and illegal characters at both ends
SanitizeAlphabet == {"a", "/", "*"}
SanitizeInputs ==
    {head \o Padding(n) \o tail :
        head \in Strings(SanitizeAlphabet, MaxAffix),
        tail \in Strings(SanitizeAlphabet, MaxAffix),
        n \in {0, PadLength}}

SanitizeOrderIds ==
    { <<"ORD", "-", "2024", "-", "07", "-", "002">>,
      <<"ORD", "-", "2024", "-", "03", "-", "007">> }

InitSanitize ==
    /\ smartCache = EmptyCache
    /\ now = 0
    /\ last \in {[op |-> "row", clientName |-> name] : name \in SanitizeInputs}
    /\ store = [t \in Targets |-> "old"]
    /\ batch = NoBatch
    /\ index = NoIndex
    /\ drive = initializeDriveSystem(NoDrive)
    /\ history = NoHistory
    /\ running = NoRunning
    /\ monitor = NoMonitor
    /\ expect = {}
    /\ agents = InitialAgents

ProvisionRow(orderId) ==
    /\ last.op = "row"
    /\ Provision(orderId, last.clientName, <<>>, 0)

NextSanitize == \E orderId \in SanitizeOrderIds : ProvisionRow(orderId)

SpecSanitize == InitSanitize /\ [][NextSanitize]_vars


(***************************************************************************)
(* Actions: createOrderFolder run by the rows' formulas at the same time,  *)
(* one step per remote call (getFoldersByName, createFolder)               *)
(***************************************************************************)
InitRace ==
    /\ smartCache = EmptyCache
    /\ now = 0
    /\ last = NoCall
    /\ store = [t \in Targets |-> "old"]
    /\ batch = NoBatch
    /\ index = NoIndex
    /\ drive = initializeDriveSystem(NoDrive)
    /\ history = NoHistory
    /\ running = NoRunning
    /\ monitor = NoMonitor
    /\ expect = {}
    /\ agents = InitialAgents

\* the scheduler: execution e may take the next step if it took the last
\* one, or if the executions have changed turns fewer than MaxSwitches times
Switches(e) ==
    IF last.op = "none" THEN 0
    ELSE IF last.execution = e THEN last.switches
    ELSE last.switches + 1

MayStep(e) == Switches(e) <= MaxSwitches

ParentOf(e) ==
    LET call == running[e].calls[running[e].next]
    IN  IF call.parent = 0 THEN drive.rootFolderId ELSE running[e].ids[call.parent]

\* one folder is resolved: on to the next call, or return
Resolved(e, id) ==
    [running[e] EXCEPT !.ids = Append(@, id),
                       !.next = @ + 1,
                       !.pc = IF running[e].next = Len(running[e].calls)
                              THEN "done" ELSE "find"]

StartExecution(e, orderId, clientName) ==
    /\ running[e].pc = "idle"
    /\ MayStep(e)
    /\ running' = [running EXCEPT ![e] =
                      [pc |-> "find", calls |-> FolderCalls(orderId, clientName),
                       next |-> 1, ids |-> <<>>]]
    /\ last' = [op |-> "startExecution", execution |-> e, switches |-> Switches(e)]
    /\ UNCHANGED <<agents, expect, monitor, smartCache, now, store, batch, index, drive, history>>

\* parentFolder.getFoldersByName(name); folders.hasNext()
FindFolder(e) ==
    /\ running[e].pc = "find"
    /\ MayStep(e)
    /\ LET folders == getFoldersByName(drive, ParentOf(e),
                                       running[e].calls[running[e].next].name)
       IN  running' = [running EXCEPT ![e] =
                          IF folders # {} THEN Resolved(e, Least(folders))
                          ELSE [@ EXCEPT !.pc = "create"]]
    /\ last' = [op |-> "getFoldersByName", execution |-> e, switches |-> Switches(e)]
    /\ UNCHANGED <<agents, expect, monitor, smartCache, now, store, batch, index, drive, history>>

\* parentFolder.createFolder(name)
CreateFolder(e) ==
    /\ running[e].pc = "create"
    /\ MayStep(e)
    /\ drive' = createFolder(drive, ParentOf(e),
                             running[e].calls[running[e].next].name)
    /\ running' = [running EXCEPT ![e] = Resolved(e, Len(drive.folders) + 1)]
    /\ last' = [op |-> "createFolder", execution |-> e, switches |-> Switches(e)]
    /\ UNCHANGED <<agents, expect, monitor, smartCache, now, store, batch, index, history>>

NextRace ==
    \/ \E e \in Executions, orderId \in RaceOrderIds, clientName \in RaceClientNames :
          StartExecution(e, orderId, clientName)
    \/ \E e \in Executions : FindFolder(e)
    \/ \E e \in Executions : CreateFolder(e)

SpecRace == InitRace /\ [][NextRace]_vars


(***************************************************************************)
(* Claims about SmartCache, checked under SpecCache                        *)
(***************************************************************************)
CacheKeyOf(key) == <<keyPrefix>> \o key

\* C1: the number of stored entries never exceeds maxEntries, and a set
\* that arrives while the cache is at capacity evicts exactly one entry
\* before it inserts: afterwards the cache holds the earlier keys minus the
\* evicted one, plus the key set.
C1_CapacityRespected ==
    /\ Len(smartCache.cache) <= maxEntries
    /\ [][/\ Len(smartCache'.cache) <= maxEntries
          /\ (last'.op = "set" /\ Len(smartCache.cache) >= maxEntries) =>
                /\ Cardinality(last'.evicted) = 1
                /\ MapKeys(smartCache'.cache) =
                     (MapKeys(smartCache.cache) \ last'.evicted)
                        \cup {CacheKeyOf(last'.key)}]_vars

\* a set that found the cache full has evicted an entry
C1_Witness ==
    /\ last.op = "set"
    /\ last.evicted # {}
    /\ Len(smartCache.cache) = maxEntries

C3_ExpiredGetPurges ==
    (last.op = "get" /\ last.expired) =>
        /\ ~MapHas(smartCache.cache, CacheKeyOf(last.key))
        /\ ~MapHas(smartCache.timestamps, CacheKeyOf(last.key))
        /\ ~MapHas(smartCache.accessCount, CacheKeyOf(last.key))


\* C27: after every SmartCache operation the value map, the expiry map and
\* the access count map hold the same keys, each key once, and
\* cacheStats.size is the number of entries of the value map.
C27_MapsInStep ==
    /\ MapKeys(smartCache.cache) = MapKeys(smartCache.timestamps)
    /\ MapKeys(smartCache.cache) = MapKeys(smartCache.accessCount)
    /\ Len(smartCache.cache) = Cardinality(MapKeys(smartCache.cache))
    /\ Len(smartCache.timestamps) = Len(smartCache.cache)
    /\ Len(smartCache.accessCount) = Len(smartCache.cache)
    /\ smartCache.size = Len(smartCache.cache)

\* the sweep has removed an expired entry and left a live one
C27_Witness ==
    /\ last.op = "clearExpiredCache"
    /\ Len(smartCache.cache) = 1
    /\ expect # {}
    /\ smartCache.misses = 1

\* C28: a set on a key the cache holds only overwrites that key: afterwards
\* the cache holds the same keys and as many entries as before, the key has
\* the new value, a new expiry and the access count 0.
C28_OverwriteKeepsOthers ==
    [][(last'.op = "set" /\ MapHas(smartCache.cache, CacheKeyOf(last'.key))) =>
          /\ MapKeys(smartCache'.cache) = MapKeys(smartCache.cache)
          /\ Len(smartCache'.cache) = Len(smartCache.cache)
          /\ MapGet(smartCache'.cache, CacheKeyOf(last'.key)) = last'.value
          /\ MapGet(smartCache'.timestamps, CacheKeyOf(last'.key)) = now + ttl
          /\ MapGet(smartCache'.accessCount, CacheKeyOf(last'.key)) = 0]_vars

\* C17: a get(k) after set(k, v), before the entry's expiry and with no set,
\* delete, clear or eviction of k in between, returns v and counts as a hit.
C17_GetAfterSet ==
    last.op = "get" =>
        \A e \in expect :
            (e.key = last.key /\ now <= e.expires) =>
                last.hit /\ last.value = e.value

\* C18: a get(k) on an entry that was set and whose TTL has elapsed, with no
\* delete of k, returns null and adds one to the miss counter and nothing to
\* the hit counter, on the first such get and on every later one.
C18_ExpiredGetMisses ==
    [][last'.op = "get" =>
          \A e \in expect :
              (e.key = last'.key /\ now > e.expires) =>
                  /\ ~last'.hit
                  /\ last'.value = "null"
                  /\ smartCache'.misses = smartCache.misses + 1
                  /\ smartCache'.hits = smartCache.hits]_vars

\* an entry past its TTL has been asked for twice, with nothing else asked
C18_Witness ==
    /\ last.op = "get"
    /\ \E e \in expect : e.key = last.key /\ now > e.expires
    /\ smartCache.misses = 2
    /\ smartCache.hits = 0
    /\ Cardinality(expect) = 1

(***************************************************************************)
(* Claims about BatchProcessor, checked under SpecBatch                    *)
(***************************************************************************)
IsReadKeyOf(k, sheetId) ==
    Len(k) >= 3 /\ k[2] = "sheets_read" /\ k[3] = sheetId

IsWrite(operation) == operation.type \in {"write", "update"}

\* the operations executed so far between positions i and j, exclusive,
\* hold no read of spreadsheet sheetId
NoReadBetween(i, j, sheetId) ==
    \A h \in (i + 1)..(j - 1) :
        ~(batch.log[h].op.type = "read" /\ batch.log[h].op.target[1] = sheetId)

\* C4: after a write or update on sheet S succeeds, no cache entry for a
\* read of any range of S remains, and the next read on S is not served
\* from the cache: when it succeeds it returns the remote value.
C4_WriteInvalidatesReads ==
    batch.phase # "idle" =>
      \A i \in 1..Len(batch.log) :
        (IsWrite(batch.log[i].op) /\ batch.results[i].success) =>
          LET sheetId == batch.log[i].op.target[1]
          IN  /\ \A k \in batch.log[i].cachedKeys : ~IsReadKeyOf(k, sheetId)
              /\ \A j \in (i + 1)..Len(batch.log) :
                    ( /\ batch.log[j].op.type = "read"
                      /\ batch.log[j].op.target[1] = sheetId
                      /\ NoReadBetween(i, j, sheetId) ) =>
                        /\ ~batch.log[j].fromCache
                        /\ batch.results[j].success =>
                              batch.results[j].data = batch.log[j].remote

\* read S1!A1:B2 (cached), write S1!A1:B2, read S1!A1:B2: the last read
\* returns the value written
C4_Witness ==
    /\ batch.phase = "done"
    /\ Len(batch.log) = 3
    /\ batch.log[1].op.type = "read" /\ batch.results[1].success
    /\ batch.log[1].op.target = <<"S1", "A1:B2">>
    /\ batch.log[2].op.type = "write" /\ batch.results[2].success
    /\ batch.log[2].op.target = <<"S1", "A1:B2">>
    /\ batch.log[3].op.type = "read" /\ batch.results[3].success
    /\ batch.log[3].op.target = <<"S1", "A1:B2">>
    /\ batch.results[1].data = "old"
    /\ batch.results[3].data = "new"

RECURSIVE Flatten(_)
Flatten(chunks) ==
    IF chunks = <<>> THEN <<>> ELSE Head(chunks) \o Flatten(Tail(chunks))

\* C8: a batch call of N operations at chunk size B dispatches exactly
\* ceil(N/B) chunks, none holding more than B operations, processes exactly
\* N items, and returns N results, the i-th for the i-th operation.
C8_ChunkCount ==
    batch.phase = "done" =>
      LET N == Len(batch.operations)
          B == BatchSize(batch.kind)
      IN  /\ Len(batch.dispatched) = (N + B - 1) \div B
          /\ \A c \in 1..Len(batch.dispatched) :
                Len(batch.dispatched[c]) \in 1..B
          /\ Flatten(batch.dispatched) = batch.operations
          /\ Len(batch.log) = N
          /\ Len(batch.results) = N
          /\ \A i \in 1..N : batch.results[i].op = batch.operations[i]

\* three sheet operations at chunk size sheetsAPI went out in two chunks
C8_Witness ==
    /\ batch.phase = "done"
    /\ batch.kind = "sheets"
    /\ Len(batch.operations) = sheetsAPI + 1
    /\ Len(batch.dispatched) = 2
    /\ Len(batch.results) = sheetsAPI + 1

\* operation i of the log raised an error: its type is unknown, or its
\* handler is missing (every drive operation), or the remote call it made
\* failed
Raised(i) ==
    LET e == batch.log[i]
    IN  \/ batch.kind = "drive"
        \/ e.op.type \notin {"read", "write", "update"}
        \/ (~e.op.remoteOk /\ ~e.fromCache)

\* the operations of the chunks dispatched so far
DispatchedSoFar ==
    IF batch.phase = "delay" THEN batch.next
    ELSE IF batch.phase = "done" THEN Len(batch.batches)
    ELSE batch.next - 1

\* C9: a failing operation yields success = false for that item only: every
\* operation of every dispatched chunk is executed and reports success
\* exactly when it did not itself raise an error; the call does not throw.
C9_FailureIsolated ==
    batch.phase # "idle" =>
      /\ Len(batch.results) =
            Len(Flatten(SubSeq(batch.batches, 1, DispatchedSoFar)))
      /\ Len(batch.log) = Len(batch.results)
      /\ \A i \in 1..Len(batch.results) :
            /\ batch.results[i].op = batch.log[i].op
            /\ batch.results[i].success <=> ~Raised(i)
      /\ batch.phase = "done" =>
            (last.op = "batch" /\ ~last.threw
               /\ Len(batch.results) = Len(batch.operations))

\* in one chunk the first operation failed and the second succeeded
C9_Witness ==
    /\ batch.phase = "done"
    /\ batch.kind = "sheets"
    /\ Len(batch.dispatched) >= 1
    /\ Len(batch.dispatched[1]) = 2
    /\ ~batch.results[1].success
    /\ batch.results[2].success


\* C24: the chunks of a batch call start one at a time in input order: when
\* chunk k starts, every operation of the chunks before it has its result,
\* and chunk k + 1 starts no earlier than the delay after chunk k started,
\* whether or not operations of chunk k failed.
C24_ChunksInSequence ==
    batch.phase # "idle" =>
        /\ Len(batch.starts) = Len(batch.dispatched)
        /\ batch.dispatched = SubSeq(batch.batches, 1, Len(batch.dispatched))
        /\ \A k \in 1..Len(batch.starts) :
               /\ batch.starts[k].finished =
                      Len(Flatten(SubSeq(batch.batches, 1, k - 1)))
               /\ k > 1 =>
                      batch.starts[k].at >= batch.starts[k - 1].at + DelayMs(batch.kind)
        /\ batch.phase = "done" => Len(batch.dispatched) = Len(batch.batches)

\* an operation of the first chunk failed and the second chunk went out
\* after the delay
C24_Witness ==
    /\ batch.phase = "done"
    /\ batch.kind = "sheets"
    /\ Len(batch.starts) = 2
    /\ ~batch.results[1].success
    /\ batch.starts[2].at = batch.starts[1].at + 100
    /\ batch.starts[2].finished = sheetsAPI

\* the errors raised so far while the operations of the batch call ran
ErrorsRaised == Cardinality({i \in 1..Len(batch.results) : ~batch.results[i].success})

\* C16: the monitor's error count is never lower than the number of errors
\* raised: every failure caught inside a batch chunk has a trackError record.
C16_EveryErrorTracked ==
    batch.phase # "idle" =>
        /\ monitor.errorCount >= ErrorsRaised
        /\ Len(monitor.errors) >= ErrorsRaised

(***************************************************************************)
(* Claims about PerformanceMonitor, checked under SpecMonitor              *)
(***************************************************************************)
\* C22: a tracked query is classified slow exactly when its duration is
\* above the threshold (a duration equal to it is good), the queries
\* classified slow are the ones the slow warning was raised for, and
\* slowQueries counts them.
C22_SlowIffAboveThreshold ==
    /\ \A i \in DOMAIN monitor.queries :
           LET q == monitor.queries[i]
           IN  /\ q.performance = "slow" <=> q.duration > queryTime
               /\ q.performance = "slow" <=> q.warned
    /\ slowQueries(monitor) =
           Cardinality({i \in DOMAIN monitor.queries : monitor.queries[i].warned})

(***************************************************************************)
(* Claims about PMHelpers, checked under SpecAgents                        *)
(***************************************************************************)
\* handoffTask as the claim words it: the giving agent idle with no task,
\* the receiving agent busy with the task, every other agent as before
HandedOff(before, after, from, to, task) ==
    /\ after[from] = [status |-> "idle", currentTask |-> "undefined"]
    /\ after[to] = [status |-> "busy", currentTask |-> task]
    /\ \A id \in AgentIds \ {from, to} : after[id] = before[id]

Rejected ==
    /\ last'.threw
    /\ last'.message = "One or both agents not found"
    /\ agents' = agents

\* C23 as stated: after handoffTask(from, to, task) with any two valid agent
\* ids the from-agent is idle with no current task, the to-agent is busy with
\* the task and every other agent is unchanged; with an invalid id on either
\* side the call throws 'One or both agents not found' and changes no agent.
C23_Handoff ==
    [][last'.op = "handoffTask" =>
          IF last'.from \in AgentIds /\ last'.to \in AgentIds
          THEN /\ ~last'.threw
               /\ HandedOff(agents, agents', last'.from, last'.to, last'.task)
          ELSE Rejected]_vars

\* C23 amended: the same for two different valid agent ids; when both ids
\* name one agent, that agent ends busy with the task and every other agent
\* is unchanged.
C23_HandoffBetweenTwoAgents ==
    [][last'.op = "handoffTask" =>
          IF last'.from \in AgentIds /\ last'.to \in AgentIds
          THEN /\ ~last'.threw
               /\ IF last'.from # last'.to
                  THEN HandedOff(agents, agents', last'.from, last'.to, last'.task)
                  ELSE /\ agents'[last'.to] =
                              [status |-> "busy", currentTask |-> last'.task]
                       /\ \A id \in AgentIds \ {last'.to} : agents'[id] = agents[id]
          ELSE Rejected]_vars

C23_Witness ==
    /\ last.op = "handoffTask"
    /\ ~last.threw
    /\ last.from # last.to
    /\ agents[last.from] = [status |-> "idle", currentTask |-> "undefined"]
    /\ agents[last.to] = [status |-> "busy", currentTask |-> last.task]
    /\ \E id \in AgentIds \ {last.from, last.to} : agents[id].status = "busy"

(***************************************************************************)
(* Claims about the search index, checked under SpecIndex                  *)
(***************************************************************************)
\* C10: for two criteria on columns of the index, the two-criteria query
\* returns exactly the set intersection of the row sets that each criterion
\* returns when queried alone.
C10_TwoCriteriaIntersect ==
    ( /\ last.op = "searchWithIndex"
      /\ Len(last.criteria) = 2
      /\ \A i \in 1..2 : last.criteria[i].column \in DOMAIN index.idx ) =>
        Range(last.ret) =
            Range(searchWithIndex(index.idx, <<last.criteria[1]>>))
              \cap Range(searchWithIndex(index.idx, <<last.criteria[2]>>))


\* C11: a query with a criterion on a column the index does not have returns
\* no row, whatever its other criteria match.
C11_AbsentColumnMatchesNothing ==
    ( /\ last.op = "searchWithIndex"
      /\ \E i \in 1..Len(last.criteria) :
             last.criteria[i].column \notin DOMAIN index.idx ) =>
        last.ret = <<>>

\* the data rows (1 is the row under the header row) whose cell in the
\* column named header equals value, both lowercased
RowsEqual(data, header, value) ==
    {r \in 1..(Len(data) - 1) :
        \E c \in 1..Len(data[1]) :
            /\ data[1][c] = header
            /\ ToLowerCase(data[r + 1][c]) = ToLowerCase(value)}

\* C12: a query of one criterion on a column of the index returns exactly
\* the data-row numbers whose cell in that column equals the value, both
\* lowercased.
C12_SingleCriterionRows ==
    ( /\ last.op = "searchWithIndex"
      /\ Len(last.criteria) = 1
      /\ last.criteria[1].column \in DOMAIN index.idx ) =>
        Range(last.ret) = RowsEqual(store[OrdersTab], last.criteria[1].column,
                                    last.criteria[1].value)

(***************************************************************************)
(* Claims about searches and writes, checked under SpecSearch              *)
(***************************************************************************)
FreshIndex == buildSearchIndex(store[OrdersTab], store[OrdersTab][1])

\* C5: after a successful write to a sheet, no index built from the sheet's
\* earlier contents is left in the cache, and a query is answered from an
\* index of the sheet as it is now, never from the index of before.
C5_WriteDiscardsIndex ==
    /\ (last.op = "writeSheetsData" /\ ~last.threw) =>
          \A i \in 1..Len(smartCache.cache) :
              smartCache.cache[i].k = <<keyPrefix, "index", OrdersTab[2]>> =>
                  smartCache.cache[i].v = FreshIndex
    /\ last.op = "optimizedSearch" =>
          Range(last.ret) = Range(searchWithIndex(FreshIndex, last.criteria))

(***************************************************************************)
(* Claims about the Drive folder automation, checked under SpecDrive       *)
(***************************************************************************)
IsWalk == last.op \in {"createAdvancedOrderFolder", "createOrderFolder"} /\ last.walk.done

\* C6: a call that walks root / 01_Orders / year / quarter / order folder
\* over a path an earlier call walked, with no folder moved or trashed in
\* between, ends at the same folder id as the earlier walk and creates no
\* folder during the walk.
C6_SecondWalkSameFolder ==
    (IsWalk /\ last.walk.prior.known) =>
        /\ last.walk.id = last.walk.prior.id
        /\ last.walk.creates = 0

\* a path is walked a second time, after a first walk that created folders
C6_Witness ==
    /\ IsWalk
    /\ last.walk.prior.known
    /\ last.walk.creates = 0
    /\ last.walk.id = last.walk.prior.id
    /\ Len(drive.folders) > last.walk.id

\* the documented ORD-YYYY-MM-DD-NNN form: five pieces
IsDocumentedId(orderId) == Len(Split(orderId)) = 5

\* C7: createAdvancedOrderFolder on a documented identifier and a client
\* performs three remote creates when the arguments are new and returns the
\* path year/quarter/identifier_client; a repeat call with the same arguments
\* performs no remote create and returns the same folder id and path.
C7_ThreeCreatesThenNone ==
    (/\ last.op = "createAdvancedOrderFolder"
     /\ IsDocumentedId(last.args[1])
     /\ ~last.walk.failed
     /\ drive.rootFolderId # 0) =>
        IF last.repeat = {}
        THEN /\ last.creates = 3
             /\ last.ret.ok
             /\ last.ret.folderPath =
                    Split(last.args[1])[2] \o <<"/">>
                        \o Quarter(parseInt(Split(last.args[1])[3])) \o <<"/">>
                        \o last.args[1] \o <<"_">> \o sanitizeFolderName(last.args[2])
        ELSE /\ last.creates = 0
             /\ \A r \in last.repeat :
                    r.folderId = last.ret.folderId /\ r.folderPath = last.ret.folderPath

\* the quarter of a two-digit month: 01-03, 04-06, 07-09, 10-12
QuarterOfMonth(mm) ==
    CASE mm \in {"01", "02", "03"} -> "Q1"
      [] mm \in {"04", "05", "06"} -> "Q2"
      [] mm \in {"07", "08", "09"} -> "Q3"
      [] mm \in {"10", "11", "12"} -> "Q4"
      [] OTHER -> "none"

\* C19: for an identifier ORD-YYYY-MM-DD-NNN with MM in 01..12 the walk of
\* createAdvancedOrderFolder goes through the segments YYYY, the quarter of
\* MM (Q1 for 01-03, Q2 for 04-06, Q3 for 07-09, Q4 for 10-12) and
\* identifier_sanitized client name.
C19_DerivedPathSegments ==
    (/\ last.op = "createAdvancedOrderFolder"
     /\ IsDocumentedId(last.args[1])
     /\ QuarterOfMonth(Split(last.args[1])[3][1]) # "none"
     /\ ~last.walk.failed
     /\ drive.rootFolderId # 0) =>
        /\ last.walk.done
        /\ SubSeq(last.walk.path, 2, 4) =
               << Split(last.args[1])[2],
                  <<QuarterOfMonth(Split(last.args[1])[3][1])>>,
                  last.args[1] \o <<"_">> \o sanitizeFolderName(last.args[2]) >>

\* the values the catch block of createAdvancedOrderFolder hands to the caller
ErrorValues ==
    { [ok |-> FALSE, error |-> m, folderId |-> 0, folderPath |-> <<"ERROR">>] :
        m \in {"Invalid Order ID format", "Root folder ID not found",
               "Remote failure"} }

C25_MalformedMonthRejected ==
    last.op = "createAdvancedOrderFolder" =>
        /\ (/\ Len(Split(last.args[1])) = 4
            /\ QuarterOfMonth(Split(last.args[1])[3][1]) = "none") => ~last.ret.ok
        /\ last.walk.done =>
               last.walk.path[3] \in {<<"Q1">>, <<"Q2">>, <<"Q3">>, <<"Q4">>}

\* folder f of Drive d lies in <root>/04_Archive/<year of the run>
InArchiveYear(d, f) ==
    LET yearFolder == d.folders[f].parent
    IN  /\ yearFolder \in 1..Len(d.folders)
        /\ d.folders[yearFolder].name = CurrentYear
        /\ d.folders[yearFolder].parent \in 1..Len(d.folders)
        /\ d.folders[d.folders[yearFolder].parent].name = <<"04_Archive">>
        /\ d.folders[d.folders[yearFolder].parent].parent = d.rootFolderId

\* what an archiveCompletedOrder that returned true has done to folder f:
\* the same node now lies in the archive's year folder under its previous
\* name with _archived_<date> appended, the only new folders are the
\* archive's own, and every other folder is where and what it was
MovedToArchive(before, after, f) ==
    /\ InArchiveYear(after, f)
    /\ after.folders[f].name = before.folders[f].name \o <<"_archived_", Timestamp>>
    /\ after.folders[f].trashed = before.folders[f].trashed
    /\ Len(after.folders) >= Len(before.folders)
    /\ \A g \in (1..Len(before.folders)) \ {f} : after.folders[g] = before.folders[g]
    /\ \A g \in (Len(before.folders) + 1)..Len(after.folders) :
           after.folders[g].name \in {<<"04_Archive">>, CurrentYear}
    /\ after.files = before.files

ArchivedSuffixes(d, f) ==
    Cardinality({i \in DOMAIN d.folders[f].name : d.folders[f].name[i] = "_archived_"})

\* C30: however often organizeCompletedOrders runs, it leaves a folder that
\* is archived already where and what it is, and no folder's name carries
\* more than one _archived_ suffix.
C30_ArchivedOnce ==
    [][last'.op = "organizeCompletedOrders" =>
          \A f \in 1..Len(drive.folders) :
              /\ ArchivedSuffixes(drive, f) > 0 => drive'.folders[f] = drive.folders[f]
              /\ ArchivedSuffixes(drive', f) <= 1]_vars

\* C29: a createAdvancedOrderFolder call that is rejected for its identifier
\* creates no folder and no file: Drive is as it was before the call.
C29_RejectedCallCreatesNothing ==
    [][(/\ last'.op = "createAdvancedOrderFolder"
        /\ ~last'.ret.ok
        /\ last'.ret.error = "Invalid Order ID format") =>
          /\ last'.creates = 0
          /\ drive'.folders = drive.folders
          /\ drive'.files = drive.files]_vars

\* C14: no operation, scheduled maintenance included, ever trashes a folder
\* that a provisioning call created.
C14_ProvisionedNeverTrashed ==
    \A i \in history.provisioned : ~drive.folders[i].trashed

\* C15: when a remote call fails partway through the walk, the call returns
\* a result that identifies the last folder the walk resolved or created.
C15_PartialProgressReturned ==
    (last.op = "createAdvancedOrderFolder" /\ last.walk.failed) =>
        last.ret.folderId = last.walk.resolved

(***************************************************************************)
(* Claims about concurrent provisioning, checked under SpecRace            *)
(***************************************************************************)
\* C13: whatever the interleaving of the provisioning calls, no folder ever
\* holds two child folders of one name.
C13_NoDuplicateSiblings ==
    \A i, j \in 1..Len(drive.folders) :
        (/\ drive.folders[i].parent = drive.folders[j].parent
         /\ drive.folders[i].name = drive.folders[j].name) => i = j

=============================================================================
